---- MODULE Spec2Model ----
(***************************************************************************)
(* ZoneGuard multi-agent pipeline: the forecasting agent, the anomaly      *)
(* agent, the reasoning agent with its memory, the action planner and the  *)
(* orchestrator that runs them (src/zoneguard/backend).                    *)
(*                                                                         *)
(* Numbers: availabilities and raw model outputs are integers in units of  *)
(* 1/Unit (Unit = 1.0); rounded predictions are in units of 1/10000;       *)
(* timestamps are whole hours.                                             *)
(***************************************************************************)
EXTENDS Integers, Sequences, FiniteSets, TLC

VARIABLES
    models,            \* ForecastAgent._models : zone -> trained model
    chromadb,          \* reasoning_agent.chromadb is not None
    memory_store,      \* ReasoningAgent._memory_store : key -> document
    collection,        \* ReasoningAgent.collection : id -> document
    explained,         \* history: per identifier, the entry reason wrote last
    last_call,         \* the most recent direct agent call and what it returned
    pc,                \* PipelineOrchestrator.run : position of each run
    args,              \* run's arguments (df, zone_id, horizon_hours, lookback)
    traces,            \* run's local list `traces`
    tasks,             \* the two gathered tasks of a run and their results
    result,            \* what run returned (PipelineOutput) or raised
    invoked            \* per run: the calls made to reasoner.reason / actor.plan

vars == <<models, chromadb, memory_store, collection, explained, last_call,
          pc, args, traces, tasks, result, invoked>>

(***************************************************************************)
(* Bounds                                                                  *)
(***************************************************************************)
MaxHorizon == 2
MaxFlagged == 2
MaxCount == 10

Zones == {"z1", "z2"}
RunIds == {1, 2}
Horizons == 0..MaxHorizon

(***************************************************************************)
(* Program constants                                                       *)
(***************************************************************************)
MinFeatureRows == 30
MinAnomalyRows == 20
TopK == 3
Unit == 100000

NoModel == "NoModel"
\* Python's None where a dict is expected
None == [none |-> TRUE]

(***************************************************************************)
(* Histories (the DataFrame handed to the agents).  A history gives, per   *)
(* zone, the number n of observations, ordered by time, and the positions  *)
(* whose availability is missing (NaN); the observation at position i has  *)
(* timestamp start + i hours.                                              *)
(***************************************************************************)
HistoryIds == {"h1", "h2", "h3", "h4", "h5"}

HistoryOf(h) ==
    CASE h = "h1" -> [start |-> 0,
                      rows |-> [z \in Zones |-> IF z = "z1" THEN 32 ELSE 10],
                      missing |-> [z \in Zones |-> {}]]
      [] h = "h2" -> [start |-> 10,
                      rows |-> [z \in Zones |-> IF z = "z1" THEN 22 ELSE 31],
                      missing |-> [z \in Zones |-> {}]]
      [] h = "h3" -> [start |-> 1,
                      rows |-> [z \in Zones |-> IF z = "z1" THEN 31 ELSE 0],
                      missing |-> [z \in Zones |-> {}]]
      [] h = "h4" -> [start |-> 7,
                      rows |-> [z \in Zones |-> IF z = "z1" THEN 1 ELSE 33],
                      missing |-> [z \in Zones |-> IF z = "z1" THEN {} ELSE {10}]]
      [] h = "h5" -> [start |-> 2,
                      rows |-> [z \in Zones |-> IF z = "z1" THEN 40 ELSE 5],
                      missing |-> [z \in Zones |-> {}]]

History == [h \in HistoryIds |-> HistoryOf(h)]

\* What _load_dataframe returns: every column of OperationalRecord is
\* non-nullable, so a history read from the database has no missing value.
DbHistories == {h \in HistoryIds : \A z \in Zones : History[h].missing[z] = {}}

\* The observation at position i of a zone (zone_df.iloc[i - 1])
Observation(h, z, i) ==
    LET ts == History[h].start + i
    IN  [timestamp |-> ts,
         demand |-> 100,
         drivers |-> IF ts % 2 = 0 THEN 60 ELSE 95,
         inventory |-> IF ts % 3 = 0 THEN 70 ELSE 90,
         availability |-> IF ts % 2 = 0 THEN 40000 ELSE 90000,
         weather |-> IF ts % 2 = 0 THEN "rain" ELSE "clear"]

Timestamp(h, i) == History[h].start + i

\* Timestamp.isoformat(): an injective rendering of the hour count
IsoFormat(ts) == "T" \o ToString(ts)

(***************************************************************************)
(* ForecastAgent                                                           *)
(***************************************************************************)
\* _build_features: positions of the zone's rows that survive dropna().
\* Row i loses its lag (shift(1)) when it is the first row or when row i-1
\* has no availability, and is dropped itself when its availability is NaN.
BuildFeatures(h, z) ==
    LET n == History[h].rows[z]
        miss == History[h].missing[z]
        Keep(i) == i >= 2 /\ i \notin miss /\ (i - 1) \notin miss
    IN  SelectSeq([i \in 1..n |-> i], Keep)

\* the feature rows of every zone of every history
FeatureRows == [h \in HistoryIds |-> [z \in Zones |-> BuildFeatures(h, z)]]

\* train: one model per zone of df with at least 30 feature rows; the model
\* is determined by its training data (random_state = 42), so it is named by
\* the history it was fitted on.  Other zones are skipped (`continue`).
TrainResetMutant(mods, h) ==
    [z \in Zones |->
        IF History[h].rows[z] > 0 /\ Len(FeatureRows[h][z]) >= MinFeatureRows
        THEN h ELSE NoModel]

Train(mods, h) ==
    [z \in Zones |->
        IF History[h].rows[z] > 0 /\ Len(FeatureRows[h][z]) >= MinFeatureRows
        THEN h ELSE mods[z]]

\* np.clip(yhat, 0.0, 1.0)
Clip(raw) == IF raw < 0 THEN 0 ELSE IF raw > Unit THEN Unit ELSE raw

\* round(yhat, 4): to the nearest 1/10000, ties to even
Round4(v) ==
    LET q == v \div 10
        r == v % 10
    IN  IF r > 5 \/ (r = 5 /\ q % 2 = 1) THEN q + 1 ELSE q

\* The regressor's raw outputs (model.predict(x)[0]); the fitted regressor is
\* opaque, so each step's output is any of these, also outside [0, 1].
RawOutputs == {0 - 25000, 33333, 99996, 120000}

Raised(err) == [status |-> "raised", error |-> err]

\* feats_df.iloc[-1]: the lag and rolling features of the latest feature row
\* i.  The lag is the availability of row i - 1 (shift(1)), the rolling
\* feature the mean of the availabilities present among rows i - 3 .. i - 1
\* (rolling(window=3, min_periods=1).mean().shift(1)), kept as the fraction
\* roll_num / roll_den.
LatestRow(h, z) ==
    LET feats == FeatureRows[h][z]
        i == feats[Len(feats)]
        prior == {j \in 1..(i - 1) : j >= i - 3 /\ j \notin History[h].missing[z]}
        Avail(j) == IF j \in prior THEN Observation(h, z, j).availability ELSE 0
    IN  [lag |-> Observation(h, z, i - 1).availability,
         roll_num |-> Avail(i - 1) + Avail(i - 2) + Avail(i - 3),
         roll_den |-> Cardinality(prior)]

\* One step of the recursion on current_row, raw being model.predict(x)[0]:
\* yhat = clip(raw); lag = yhat; roll = (roll * 2 + yhat) / 3
StepRowNoClipMutant(row, raw) ==
    [lag |-> raw,
     roll_num |-> 2 * row.roll_num + raw * row.roll_den,
     roll_den |-> 3 * row.roll_den]

StepRow(row, raw) ==
    LET yhat == Clip(raw)
    IN  [lag |-> yhat,
         roll_num |-> 2 * row.roll_num + yhat * row.roll_den,
         roll_den |-> 3 * row.roll_den]

\* current_row after k steps of the loop
RECURSIVE CurrentRow(_, _, _, _)
CurrentRow(h, z, k, raws) ==
    IF k = 0 THEN LatestRow(h, z)
    ELSE StepRow(CurrentRow(h, z, k - 1, raws), raws[k])

\* the lag and rolling features during a predict call: rows[k] are those of
\* the x handed to the regressor at step k, rows[H + 1] those left in
\* current_row at the end
PredictRows(h, z, H, raws) == [k \in 1..(H + 1) |-> CurrentRow(h, z, k - 1, raws)]

\* predict: raws[k] is the regressor's output at step k of the recursion
PredictUntrainedMutant(mods, h, z, H, raws) ==
    LET feats == FeatureRows[h][z] IN
    IF feats = <<>> THEN Raised("InsufficientData")
    ELSE [status |-> "returned", error |-> "none", model |-> mods[z],
          zone_id |-> z, horizon_hours |-> H,
          predictions |-> IF mods[z] = NoModel THEN <<>>
                          ELSE [k \in 1..H |->
                                  [timestamp |-> IsoFormat(Timestamp(h, feats[Len(feats)]) + k),
                                   predicted_availability |-> Round4(Clip(raws[k]))]]]

PredictNoClipMutant(mods, h, z, H, raws) ==
    IF mods[z] = NoModel THEN Raised("ModelNotReady")
    ELSE LET feats == FeatureRows[h][z] IN
         IF feats = <<>> THEN Raised("InsufficientData")
         ELSE [status |-> "returned", error |-> "none", model |-> mods[z],
               zone_id |-> z, horizon_hours |-> H,
               predictions |-> [k \in 1..H |->
                  [timestamp |-> IsoFormat(Timestamp(h, feats[Len(feats)]) + k),
                   predicted_availability |-> Round4(raws[k])]]]

Predict(mods, h, z, H, raws) ==
    IF mods[z] = NoModel THEN Raised("ModelNotReady")
    ELSE LET feats == FeatureRows[h][z] IN
         IF feats = <<>> THEN Raised("InsufficientData")
         ELSE LET current_ts == Timestamp(h, feats[Len(feats)]) IN
              [status |-> "returned", error |-> "none", model |-> mods[z],
               zone_id |-> z, horizon_hours |-> H,
               predictions |-> [k \in 1..H |->
                  [timestamp |-> IsoFormat(current_ts + k),
                   predicted_availability |-> Round4(Clip(raws[k]))]]]

(***************************************************************************)
(* ReasoningAgent                                                          *)
(***************************************************************************)
\* dict.get(key, default)
Get(d, key, default) == IF key \in DOMAIN d THEN d[key] ELSE default

\* store[key] = doc on a dict, collection.upsert(ids=[key], ...) on chroma
UpsertKeepMutant(store, key, doc) ==
    [k \in DOMAIN store \cup {key} |-> IF k \in DOMAIN store THEN store[k] ELSE doc]

Upsert(store, key, doc) ==
    [k \in DOMAIN store \cup {key} |-> IF k = key THEN doc ELSE store[k]]

EmptyStore == [k \in {} |-> ""]

\* str(event.get("event_id", "unknown-event"))
EventIdOf(event) == Get(event, "event_id", "unknown-event")

\* "\n".join(context)
RECURSIVE Join(_)
Join(context) ==
    IF Len(context) = 0 THEN ""
    ELSE IF Len(context) = 1 THEN context[1]
    ELSE context[1] \o "\n" \o Join(Tail(context))

NoPriorContext == "No prior context available."

ContextText(context) == IF context # <<>> THEN Join(context) ELSE NoPriorContext

\* _build_prompt: json.dumps(event) is rendered by ToString
BuildPrompt(event, context) ==
    "You are ZoneGuard root-cause analyst. Event: " \o ToString(event)
        \o "\nContext: " \o ContextText(context)
        \o "\nOutput JSON with keys: root_cause, evidence, confidence, risks."

Min(a, b) == IF a < b THEN a ELSE b
Max(a, b) == IF a > b THEN a ELSE b

Range(seq) == {seq[i] : i \in DOMAIN seq}

\* the elements of a finite set, listed in one fixed order
SeqOfSet(S) == CHOOSE s \in [1..Cardinality(S) -> S] : Range(s) = S

\* What collection.query(query_texts=[event_id], n_results=top_k) may return:
\* top_k of the stored documents (all of them when there are fewer).  Which
\* ones are nearest is the embedding's business, so any top_k keys may be
\* chosen; the order inside the result is fixed, nothing depends on it.
QueryResults(coll, top_k) ==
    LET n == Min(top_k, Cardinality(DOMAIN coll))
    IN  {[i \in 1..n |-> coll[SeqOfSet(K)[i]]] :
            K \in {S \in SUBSET DOMAIN coll : Cardinality(S) = n}}

\* round(num / den) to the nearest integer, ties to even (den > 0, num >= 0)
RoundDiv(num, den) ==
    LET q == num \div den
        r == num % den
    IN  IF 2 * r > den \/ (2 * r = den /\ q % 2 = 1) THEN q + 1 ELSE q

Digits2(n) == IF n < 10 THEN "0" \o ToString(n) ELSE ToString(n)

\* f"{x:.2f}" of a value given in hundredths
Fmt2(hundredths) == ToString(hundredths \div 100) \o "." \o Digits2(hundredths % 100)

\* json.dumps of a float given in hundredths: 0.9, 0.73, 1.0
JsonFloat(hundredths) ==
    ToString(hundredths \div 100) \o "." \o
        (IF hundredths % 10 = 0 THEN ToString((hundredths % 100) \div 10)
         ELSE Digits2(hundredths % 100))

\* confidence = round(min(0.9, 0.45 + pressure / 5), 2), in hundredths
FallbackConfidenceNoCapMutant(demand, drivers) ==
    45 + RoundDiv(20 * demand, Max(drivers, 1))

FallbackConfidence(demand, drivers) ==
    Min(90, 45 + RoundDiv(20 * demand, Max(drivers, 1)))

\* the deterministic local explanation of reason's except branch
FallbackExplanation(event) ==
    LET snapshot == Get(event, "snapshot", [x \in {} |-> 0])
        demand == Get(snapshot, "demand", 0)
        drivers == Get(snapshot, "drivers", 1)
        inventory == Get(snapshot, "inventory", 1)
        weather == Get(snapshot, "weather", "clear")
    IN  "{\"root_cause\": \"Demand-driver imbalance with environmental disruption\", "
        \o "\"evidence\": [\"Demand/driver pressure="
        \o Fmt2(RoundDiv(100 * demand, Max(drivers, 1)))
        \o "\", \"Inventory level=" \o Fmt2(100 * inventory)
        \o "\", \"Weather=" \o weather
        \o "\"], \"confidence\": " \o JsonFloat(FallbackConfidence(demand, drivers))
        \o ", \"risks\": [\"Service-level breach\", \"Order delays\"]}"

\* Outcomes of _call_ollama: it raises (timeout, connection error, HTTP error
\* status, body that is not JSON) or returns response.json().get("response", "")
ServiceOutcomes ==
    {[raises |-> TRUE, response |-> ""],
     [raises |-> FALSE, response |-> ""],
     [raises |-> FALSE, response |-> "{\"root_cause\": \"driver shortage\"}"]}

ExplanationDoc(event_id, explanation) ==
    "event_id=" \o event_id \o "; explanation=" \o explanation

\* What the surroundings decide during one reason call: whether the
\* collection's query / upsert raises, which documents the query returns and
\* what the explanation service does.  Without chromadb only the service
\* matters.
ReasonEnvs(has_chroma, coll) ==
    IF has_chroma
    THEN [qfail : {FALSE}, ufail : {FALSE}, query : QueryResults(coll, TopK),
          service : ServiceOutcomes]
         \cup [qfail : {FALSE}, ufail : {TRUE}, query : QueryResults(coll, TopK),
               service : {[raises |-> TRUE, response |-> ""]}]
         \cup [qfail : {TRUE}, ufail : {FALSE}, query : {<<>>},
               service : {[raises |-> TRUE, response |-> ""]}]
    ELSE [qfail : {FALSE}, ufail : {FALSE}, query : {<<>>}, service : ServiceOutcomes]

\* _query_context
QueryContext(has_chroma, store, event_id, env) ==
    IF ~has_chroma
    THEN IF event_id \in DOMAIN store THEN <<store[event_id]>> ELSE <<>>
    ELSE env.query

\* reason(event): the value it returns (or the exception it lets through) and
\* the stores it leaves behind.
Reason(has_chroma, store, coll, event, env) ==
    LET event_id == EventIdOf(event)
        context == QueryContext(has_chroma, store, event_id, env)
        prompt == BuildPrompt(event, context)
        explanation == IF env.service.raises THEN FallbackExplanation(event)
                       ELSE env.service.response
        doc == ExplanationDoc(event_id, explanation)
        unchanged == [memory_store |-> store, collection |-> coll]
    IN  IF has_chroma /\ (env.qfail \/ env.ufail)
        THEN [ret |-> [status |-> "raised", error |-> "StoreFailure",
                       event_id |-> event_id, context |-> <<>>,
                       prompt |-> "", explanation |-> ""]] @@ unchanged
        ELSE [ret |-> [status |-> "returned", error |-> "none",
                       event_id |-> event_id, context |-> context,
                       prompt |-> prompt, explanation |-> explanation],
              memory_store |-> IF has_chroma THEN store ELSE Upsert(store, event_id, doc),
              collection |-> IF has_chroma THEN Upsert(coll, event_id, doc) ELSE coll]

\* fb_id = f"feedback:{event_id}:{rating}"
FeedbackId(event_id, rating) == "feedback:" \o event_id \o ":" \o ToString(rating)

FeedbackDoc(event_id, correction, rating) ==
    "feedback for " \o event_id \o ": rating=" \o ToString(rating)
        \o "; correction=" \o correction

\* ingest_feedback(event_id, correction, rating); ufail: the upsert raises
IngestFeedback(has_chroma, store, coll, event_id, correction, rating, ufail) ==
    LET fb_id == FeedbackId(event_id, rating)
        doc == FeedbackDoc(event_id, correction, rating)
    IN  IF has_chroma /\ ufail
        THEN [ret |-> [status |-> "raised", error |-> "StoreFailure", fb_id |-> fb_id],
              memory_store |-> store, collection |-> coll]
        ELSE [ret |-> [status |-> "returned", error |-> "none", fb_id |-> fb_id],
              memory_store |-> IF has_chroma THEN store ELSE Upsert(store, fb_id, doc),
              collection |-> IF has_chroma THEN Upsert(coll, fb_id, doc) ELSE coll]

\* the store the agent actually uses
Memory == IF chromadb THEN collection ELSE memory_store

(***************************************************************************)
(* AnomalyAgent                                                            *)
(***************************************************************************)
\* The anomaly scores of flagged rows (scores = -model.score_samples(features)),
\* in units of 1/Unit
Scores == {45006, 61004}

\* scores tried on direct detect calls: two of them round to the same value
DetectScores == Scores \cup {61001}

\* the lookbacks asked for: the smallest a request may carry and the default
Lookbacks == {24, 120}

\* df[df.zone_id == z].sort_values("timestamp").tail(lookback): positions
WindowHeadMutant(h, z, lookback) ==
    LET n == History[h].rows[z]
    IN  [k \in 1..Min(lookback, n) |-> k]

Window(h, z, lookback) ==
    LET n == History[h].rows[z]
    IN  [k \in 1..Min(lookback, n) |-> n - Min(lookback, n) + k]

\* What IsolationForest.fit_predict / score_samples may decide on a window:
\* the flagged rows (labels == -1) with their scores.  The forest is opaque;
\* the flagged rows are taken among the last MaxFlagged rows of the window.
OutlierChoicesOf(h, z, lookback) ==
    LET w == Window(h, z, lookback)
        cand == {w[k] : k \in {j \in DOMAIN w : j > Len(w) - MaxFlagged}}
    IN  UNION {[F -> Scores] : F \in SUBSET cand}

\* The same for a direct detect call: the flagged rows are taken among the
\* first and the last row of the window.
DetectOutlierChoices(h, z, lookback) ==
    LET w == Window(h, z, lookback)
        cand == {w[k] : k \in {j \in DOMAIN w : j = 1 \/ j = Len(w)}}
    IN  UNION {[F -> DetectScores] : F \in SUBSET cand}

OutlierChoices ==
    [h \in HistoryIds |-> [z \in Zones |-> [lookback \in Lookbacks |->
        OutlierChoicesOf(h, z, lookback)]]]

\* one entry of `events`; its score is round(float(row.score), 4), in 1/10000
MakeEventTruncMutant(h, z, i, score) ==
    LET row == Observation(h, z, i)
    IN  [event_id |-> z \o ":" \o IsoFormat(row.timestamp),
         timestamp |-> IsoFormat(row.timestamp),
         zone_id |-> z,
         score |-> score \div 10,
         snapshot |-> [demand |-> row.demand, drivers |-> row.drivers,
                       inventory |-> row.inventory,
                       availability |-> row.availability,
                       weather |-> row.weather]]

MakeEvent(h, z, i, score) ==
    LET row == Observation(h, z, i)
    IN  [event_id |-> z \o ":" \o IsoFormat(row.timestamp),
         timestamp |-> IsoFormat(row.timestamp),
         zone_id |-> z,
         score |-> Round4(score),
         snapshot |-> [demand |-> row.demand, drivers |-> row.drivers,
                       inventory |-> row.inventory,
                       availability |-> row.availability,
                       weather |-> row.weather]]

\* list.sort(key=score, reverse=True): stable, highest score first
RECURSIVE SortByScore(_)
SortByScore(events) ==
    IF events = <<>> THEN <<>>
    ELSE LET rest == SortByScore(SubSeq(events, 1, Len(events) - 1))
             e == events[Len(events)]
             before == SelectSeq(rest, LAMBDA x : x.score >= e.score)
             after == SelectSeq(rest, LAMBDA x : x.score < e.score)
         IN  before \o <<e>> \o after

\* detect: outliers maps each flagged position of the window to its score
DetectUnsortedMutant(h, z, lookback, outliers) ==
    LET w == Window(h, z, lookback) IN
    IF Len(w) < MinAnomalyRows THEN Raised("InsufficientData")
    ELSE [status |-> "returned", error |-> "none", zone_id |-> z,
          events |-> LET f == SelectSeq(w, LAMBDA i : i \in DOMAIN outliers)
                     IN  [k \in DOMAIN f |-> MakeEvent(h, z, f[k], outliers[f[k]])]]

Detect(h, z, lookback, outliers) ==
    LET w == Window(h, z, lookback) IN
    IF Len(w) < MinAnomalyRows THEN Raised("InsufficientData")
    ELSE LET flagged == SelectSeq(w, LAMBDA i : i \in DOMAIN outliers)
             events == [k \in DOMAIN flagged |->
                           MakeEvent(h, z, flagged[k], outliers[flagged[k]])]
         IN  [status |-> "returned", error |-> "none", zone_id |-> z,
              events |-> SortByScore(events)]

(***************************************************************************)
(* ActionAgent                                                             *)
(***************************************************************************)
Action(name, detail, priority) ==
    [action |-> name, detail |-> detail, priority |-> priority]

RebalanceDrivers ==
    Action("Rebalance drivers",
           "Shift drivers from neighboring zones within next 30 minutes.", "high")
ExpediteInventory ==
    Action("Expedite inventory transfer",
           "Move hot-selling inventory from closest micro-fulfillment center.", "high")
EnableSurgeControls ==
    Action("Enable surge controls",
           "Temporarily throttle low-priority orders and adjust promised ETA windows.",
           "medium")
MonitorZoneStability ==
    Action("Monitor zone stability",
           "Track availability every 15 minutes for the next 2 hours.", "medium")

\* plan(event, explanation); x < demand * 0.9 is 10 * x < 9 * demand
PlanInclusiveMutant(event, explanation) ==
    LET snapshot == Get(event, "snapshot", [x \in {} |-> 0])
        demand == Get(snapshot, "demand", 0)
        drivers == Get(snapshot, "drivers", 0)
        inventory == Get(snapshot, "inventory", 0)
    IN  [event_id |-> Get(event, "event_id", "unknown-event"),
         recommended_actions |->
            (IF 10 * drivers <= 9 * demand THEN <<RebalanceDrivers>> ELSE <<>>)
            \o (IF 10 * inventory < 8 * demand THEN <<ExpediteInventory>> ELSE <<>>)
            \o <<EnableSurgeControls, MonitorZoneStability>>,
         reasoning_reference |-> explanation]

Plan(event, explanation) ==
    LET snapshot == Get(event, "snapshot", [x \in {} |-> 0])
        demand == Get(snapshot, "demand", 0)
        drivers == Get(snapshot, "drivers", 0)
        inventory == Get(snapshot, "inventory", 0)
    IN  [event_id |-> Get(event, "event_id", "unknown-event"),
         recommended_actions |->
            (IF 10 * drivers < 9 * demand THEN <<RebalanceDrivers>> ELSE <<>>)
            \o (IF 10 * inventory < 8 * demand THEN <<ExpediteInventory>> ELSE <<>>)
            \o <<EnableSurgeControls, MonitorZoneStability>>,
         reasoning_reference |-> explanation]

(***************************************************************************)
(* evaluation.business_metrics.  Rates are in units of 1/10000 (round(x, 4)), *)
(* minutes and hours in units of 1/100 (round(x, 2)).                      *)
(***************************************************************************)
EstimateImpactNoClampMutant(anomalies_detected, corrective_actions, acknowledged_actions, baseline_incidents) ==
    LET baseline == IF baseline_incidents <= 0 THEN 1 ELSE baseline_incidents
    IN  [incident_prevention_rate |->
            IF anomalies_detected >= baseline THEN 10000
            ELSE RoundDiv(10000 * anomalies_detected, baseline),
         estimated_mttr_reduction_minutes |->
            IF corrective_actions = 0 THEN 1200
            ELSE RoundDiv(1200 * corrective_actions + 3800 * acknowledged_actions,
                          corrective_actions),
         action_acceptance_rate |->
            IF corrective_actions = 0 THEN 0
            ELSE RoundDiv(10000 * acknowledged_actions, corrective_actions),
         estimated_ops_hours_saved |-> 35 * anomalies_detected + 22 * acknowledged_actions]

\* estimate_impact: the acceptance rate is the fraction num / den
EstimateImpact(anomalies_detected, corrective_actions, acknowledged_actions, baseline_incidents) ==
    LET baseline == IF baseline_incidents <= 0 THEN 1 ELSE baseline_incidents
        clamped == corrective_actions = 0 \/ acknowledged_actions >= corrective_actions
        num == IF corrective_actions = 0 THEN 0
               ELSE IF clamped THEN 1 ELSE acknowledged_actions
        den == IF clamped THEN 1 ELSE corrective_actions
    IN  [incident_prevention_rate |->
            IF anomalies_detected >= baseline THEN 10000
            ELSE RoundDiv(10000 * anomalies_detected, baseline),
         estimated_mttr_reduction_minutes |-> RoundDiv(1200 * den + 3800 * num, den),
         action_acceptance_rate |-> RoundDiv(10000 * num, den),
         estimated_ops_hours_saved |-> 35 * anomalies_detected + 22 * acknowledged_actions]

(***************************************************************************)
(* evaluation.metrics.  Series are in units of 1/10000 (the observed        *)
(* availabilities of the histories are multiples of it), results rounded   *)
(* to 4 decimals (round(x, 4)); NaN is the mean of an empty series.        *)
(***************************************************************************)
\* float("nan"), and a float given in units of 1/10000
NaN == [nan |-> TRUE]
Float(v) == [value |-> v]

Abs(x) == IF x < 0 THEN 0 - x ELSE x

RECURSIVE Gcd(_, _)
Gcd(a, b) == IF b = 0 THEN a ELSE Gcd(b, a % b)

Lcm(a, b) == (a \div Gcd(a, b)) * b

RECURSIVE Sum(_)
Sum(seq) == IF seq = <<>> THEN 0 ELSE seq[1] + Sum(Tail(seq))

RECURSIVE LcmOf(_)
LcmOf(seq) == IF seq = <<>> THEN 1 ELSE Lcm(seq[1], LcmOf(Tail(seq)))

\* mape: mean(|yt - yp| / clip(|yt|, 1e-6)); the series here have yt > 0
Mape(y_true, y_pred) ==
    IF Len(y_true) # Len(y_pred) THEN Raised("ValueError")
    ELSE IF Len(y_true) = 0 THEN NaN
    ELSE LET n == Len(y_true)
             L == LcmOf(y_true)
             A == Sum([k \in 1..n |-> Abs(y_true[k] - y_pred[k]) * (L \div y_true[k])])
             g == Gcd(10000, L * n)
         IN  Float(RoundDiv((10000 \div g) * A, (L * n) \div g))

\* the integer nearest to sqrt(x / n), searched in lo..hi
RECURSIVE SqrtNearest(_, _, _, _)
SqrtNearest(lo, hi, x, n) ==
    IF lo = hi THEN lo
    ELSE LET mid == (lo + hi + 1) \div 2
         IN  IF (2 * mid - 1) * (2 * mid - 1) <= (4 * x) \div n
             THEN SqrtNearest(mid, hi, x, n)
             ELSE SqrtNearest(lo, mid - 1, x, n)

\* rmse: sqrt(mean((yt - yp) ** 2))
Rmse(y_true, y_pred) ==
    IF Len(y_true) # Len(y_pred) THEN Raised("ValueError")
    ELSE IF Len(y_true) = 0 THEN NaN
    ELSE LET n == Len(y_true)
             S == Sum([k \in 1..n |-> (y_true[k] - y_pred[k]) * (y_true[k] - y_pred[k])])
         IN  Float(SqrtNearest(0, 10000, S, n))

(***************************************************************************)
(* Direct calls on the agents (tests, /predict, /reason, /feedback)        *)
(***************************************************************************)
agentVars == <<models, chromadb, memory_store, collection, explained>>
runVars == <<pc, args, traces, tasks, result, invoked>>

RawSeqs(H) == [1..H -> RawOutputs]

\* history of reason's writes: a returned call's entry replaces the one noted
Explained(noted, ret) ==
    IF ret.status = "returned"
    THEN Upsert(noted, ret.event_id, ExplanationDoc(ret.event_id, ret.explanation))
    ELSE noted

\* agent.train(df)
TrainCall(h) ==
    /\ models' = Train(models, h)
    /\ last_call' = [op |-> "train", history |-> h, ret |-> [status |-> "returned"]]
    /\ UNCHANGED <<chromadb, memory_store, collection, explained, runVars>>

\* agent.predict(df, zone_id, horizon_hours)
PredictCall(h, z, H, raws) ==
    /\ last_call' = [op |-> "predict", history |-> h, zone |-> z, horizon |-> H,
                     ret |-> Predict(models, h, z, H, raws)]
    /\ UNCHANGED <<agentVars, runVars>>

\* agent.predict(df, zone_id, horizon_hours), noted with the regressor's
\* outputs and the features of every step
PredictTraced(h, z, H, raws) ==
    \E ret \in {Predict(models, h, z, H, raws)} :
    /\ last_call' = [op |-> "predict", history |-> h, zone |-> z, horizon |-> H,
                     raws |-> raws, ret |-> ret,
                     rows |-> IF ret.status = "returned"
                              THEN PredictRows(h, z, H, raws) ELSE <<>>]
    /\ UNCHANGED <<agentVars, runVars>>

\* _forecaster.train(df) followed by _forecaster.predict(df, zone, horizon)
TrainThenPredict(h, z, H, raws) ==
    /\ models' = Train(models, h)
    /\ last_call' = [op |-> "forecast", history |-> h, zone |-> z, horizon |-> H,
                     ret |-> Predict(models', h, z, H, raws)]
    /\ UNCHANGED <<chromadb, memory_store, collection, explained, runVars>>

\* _reasoner.reason(event)
ReasonCall(event, env) ==
    \E r \in {Reason(chromadb, memory_store, collection, event, env)} :
    /\ memory_store' = r.memory_store
    /\ collection' = r.collection
    /\ explained' = Explained(explained, r.ret)
    /\ last_call' = [op |-> "reason", event |-> event, env |-> env, ret |-> r.ret]
    /\ UNCHANGED <<models, chromadb, runVars>>

\* _reasoner.ingest_feedback(event_id, correction, rating)
FeedbackCall(event_id, correction, rating, ufail) ==
    \E r \in {IngestFeedback(chromadb, memory_store, collection,
                               event_id, correction, rating, ufail)} :
    /\ memory_store' = r.memory_store
    /\ collection' = r.collection
    /\ last_call' = [op |-> "ingest_feedback", event_id |-> event_id,
                     rating |-> rating, correction |-> correction, ret |-> r.ret]
    /\ UNCHANGED <<models, chromadb, explained, runVars>>

\* agent.detect(df, zone_id, lookback)
DetectCall(h, z, lookback, outliers) ==
    /\ last_call' = [op |-> "detect", history |-> h, zone |-> z, lookback |-> lookback,
                     outliers |-> outliers, ret |-> Detect(h, z, lookback, outliers)]
    /\ UNCHANGED <<agentVars, runVars>>

\* actor.plan(event, explanation)
PlanCall(event, explanation) ==
    /\ last_call' = [op |-> "plan", event |-> event, explanation |-> explanation,
                     ret |-> Plan(event, explanation)]
    /\ UNCHANGED <<agentVars, runVars>>

\* estimate_impact(anomalies_detected, corrective_actions, acknowledged_actions,
\*                 baseline_incidents)
ImpactCall(anomalies_detected, corrective_actions, acknowledged_actions, baseline_incidents) ==
    /\ last_call' = [op |-> "estimate_impact",
                     anomalies_detected |-> anomalies_detected,
                     corrective_actions |-> corrective_actions,
                     acknowledged_actions |-> acknowledged_actions,
                     baseline_incidents |-> baseline_incidents,
                     ret |-> EstimateImpact(anomalies_detected, corrective_actions,
                                            acknowledged_actions, baseline_incidents)]
    /\ UNCHANGED <<agentVars, runVars>>

(***************************************************************************)
(* evaluation.harness.ReplayHarness.run: a plain (synchronous) method, so  *)
(* one call is one step.  The harness owns its four agents; models,        *)
(* memory_store and collection are theirs in SpecReplay.                   *)
(***************************************************************************)
MinReplayRows == 40

\* max(40, lookback // 2)
ReplayThresholdHalfMutant(lookback) == lookback \div 2

ReplayThresholdMinMutant(lookback) == Min(MinReplayRows, lookback \div 2)

ReplayThreshold(lookback) == Max(MinReplayRows, lookback \div 2)

\* events[:5]
MaxReasoned == 5

\* The loop over the first events: every way it can go, given what the
\* surroundings may do at each reason call.  calls lists the invocations in
\* order, counts the numbers of recommended actions, rets what reason returned.
RECURSIVE ReasonEach(_, _, _, _)
ReasonEach(has_chroma, store, coll, events) ==
    IF events = <<>>
    THEN {[status |-> "returned", error |-> "none", memory_store |-> store,
           collection |-> coll, calls |-> <<>>, counts |-> <<>>, rets |-> <<>>]}
    ELSE LET event == events[1] IN
         UNION {IF r.ret.status = "raised"
                THEN {[status |-> "raised", error |-> r.ret.error,
                       memory_store |-> r.memory_store, collection |-> r.collection,
                       calls |-> <<[call |-> "reason", event |-> event]>>,
                       counts |-> <<>>, rets |-> <<r.ret>>]}
                ELSE LET action == Plan(event, r.ret.explanation) IN
                     {[rest EXCEPT
                          !.calls = <<[call |-> "reason", event |-> event],
                                      [call |-> "plan", event |-> event,
                                       explanation |-> r.ret.explanation]>> \o @,
                          !.counts = <<Len(action.recommended_actions)>> \o @,
                          !.rets = <<r.ret>> \o @] :
                        rest \in ReasonEach(has_chroma, r.memory_store, r.collection,
                                            Tail(events))}
                : r \in {Reason(has_chroma, store, coll, event, env) :
                            env \in ReasonEnvs(has_chroma, coll)}}

\* the entries reason wrote during the loop, noted in order
RECURSIVE ExplainedAll(_, _)
ExplainedAll(noted, rets) ==
    IF rets = <<>> THEN noted ELSE ExplainedAll(Explained(noted, rets[1]), Tail(rets))

\* zone_df["availability"].tail(horizon_hours), in 1/10000
TailAvailability(h, z, H) ==
    LET n == History[h].rows[z]
        m == Min(H, n)
    IN  [k \in 1..m |-> Observation(h, z, n - m + k).availability \div 10]

ReplayReport(zone_id, forecast_mape, forecast_rmse, anomaly_events, generated_actions, business_impact) ==
    [status |-> "returned", error |-> "none",
     zone_id |-> zone_id, forecast_mape |-> forecast_mape,
     forecast_rmse |-> forecast_rmse, anomaly_events |-> anomaly_events,
     generated_actions |-> generated_actions, business_impact |-> business_impact]

\* what the call is noted as in last_call
ReplayCall(h, z, H, lookback, calls, ret) ==
    [op |-> "replay", history |-> h, zone |-> z, horizon |-> H,
     lookback |-> lookback, calls |-> calls, ret |-> ret]

\* int(round(count * 0.6))
AcknowledgedFloorMutant(count) == (6 * count) \div 10

Acknowledged(count) == RoundDiv(6 * count, 10)

\* the arguments of the estimate_impact call, from the counts of the loop
ImpactArgs(lookback, anomaly_result, loop) ==
    [anomalies_detected |-> Len(anomaly_result.events),
     corrective_actions |-> Sum(loop.counts),
     acknowledged_actions |->
        Sum([k \in DOMAIN loop.counts |-> Acknowledged(loop.counts[k])]),
     baseline_incidents |-> Max(1, lookback \div 24)]

\* the end of run, once the loop has returned: impact, metrics, report
ReplayEnd(h, z, H, lookback, forecast, anomaly_result, loop) ==
    LET y_pred == [k \in 1..H |-> forecast.predictions[k].predicted_availability]
        y_true == TailAvailability(h, z, H)
        a == ImpactArgs(lookback, anomaly_result, loop)
        generated_actions == a.corrective_actions
        impact == EstimateImpact(a.anomalies_detected, a.corrective_actions,
                                 a.acknowledged_actions, a.baseline_incidents)
    IN  IF Len(y_true) # Len(y_pred) THEN Raised("ValueError")
        ELSE ReplayReport(z, Mape(y_true, y_pred), Rmse(y_true, y_pred),
                          Len(anomaly_result.events), generated_actions, impact)

\* What the forest may flag in a replay: as in a pipeline run, or one row
\* more than the loop takes, among the latest rows of the window, with scores
\* that rank them otherwise than by time.
ManyFlagged(h, z, lookback) ==
    LET w == Window(h, z, lookback)
        F == {w[k] : k \in {j \in DOMAIN w : j > Len(w) - (MaxReasoned + 1)}}
    IN  [i \in F |-> IF i % 2 = 0 THEN 61004 ELSE 45006]

ReplayOutlierChoices(h, z, lookback) ==
    OutlierChoicesOf(h, z, lookback) \cup {ManyFlagged(h, z, lookback)}

\* A horizon the replay request accepts that is longer than the zone's
\* history of 40 rows
LongHorizon == 41

ReplayHorizons == Horizons \cup {LongHorizon}

\* what the regressor may answer during a replay; over the long horizon it
\* answers the same value at every step
ReplayRaws(H) ==
    IF H = LongHorizon THEN {[k \in 1..H |-> raw] : raw \in RawOutputs}
    ELSE RawSeqs(H)

\* the two series handed to mape and rmse: y_true, y_pred
MetricArgs(h, z, H, forecast) ==
    <<TailAvailability(h, z, H),
      [k \in 1..H |-> forecast.predictions[k].predicted_availability]>>

ReplayRun(h, z, H, lookback) ==
    IF History[h].rows[z] < ReplayThreshold(lookback)
    THEN /\ last_call' = ReplayCall(h, z, H, lookback, <<>>, Raised("InsufficientData"))
         /\ UNCHANGED <<agentVars, runVars>>
    ELSE
    \* what the forest and the surroundings of the loop may do, then what the
    \* regressor may do
    \E trained \in {Train(models, h)} :
    \E outliers \in ReplayOutlierChoices(h, z, lookback) :
    \E anomaly_result \in {Detect(h, z, lookback, outliers)} :
    \E loops \in {IF anomaly_result.status = "raised" THEN {}
                  ELSE ReasonEach(chromadb, memory_store, collection,
                                  SubSeq(anomaly_result.events, 1,
                                         Min(MaxReasoned, Len(anomaly_result.events))))} :
    \E raws \in ReplayRaws(H) :
    \E forecast \in {Predict(trained, h, z, H, raws)} :
    /\ models' = trained
    /\ UNCHANGED <<chromadb, runVars>>
    /\ IF forecast.status = "raised"
       THEN /\ last_call' = ReplayCall(h, z, H, lookback, <<>>, forecast)
            /\ UNCHANGED <<memory_store, collection, explained>>
       ELSE IF anomaly_result.status = "raised"
       THEN /\ last_call' = ReplayCall(h, z, H, lookback, <<>>, anomaly_result)
            /\ UNCHANGED <<memory_store, collection, explained>>
       ELSE
       \E loop \in loops :
       /\ memory_store' = loop.memory_store
       /\ collection' = loop.collection
       /\ explained' = ExplainedAll(explained, loop.rets)
       /\ last_call' = [op |-> "replay", history |-> h, zone |-> z, horizon |-> H,
                        lookback |-> lookback, calls |-> loop.calls,
                        ret |-> IF loop.status = "raised" THEN Raised(loop.error)
                                ELSE ReplayEnd(h, z, H, lookback, forecast,
                                               anomaly_result, loop),
                        events |-> anomaly_result.events,
                        impact_args |-> ImpactArgs(lookback, anomaly_result, loop),
                        metric_args |-> IF loop.status = "raised" THEN <<>>
                                        ELSE MetricArgs(h, z, H, forecast)]

(***************************************************************************)
(* PipelineOrchestrator.run                                                *)
(***************************************************************************)
\* (perf_counter() - start) * 1000 of a stage that ran
Latencies == {0, 3}

NotStarted == [status |-> "none", error |-> "none"]
Pending == [status |-> "pending", error |-> "none"]

StepTrace(step, status, latency_ms, details) ==
    [step |-> step, status |-> status, latency_ms |-> latency_ms, details |-> details]

\* run is called: both stage coroutines are handed to asyncio.gather
StartRun(r) ==
    /\ pc[r] = "idle"
    /\ \E h \in DbHistories, z \in Zones, H \in Horizons, lookback \in Lookbacks :
          args' = [args EXCEPT ![r] = [df |-> h, zone_id |-> z,
                                       horizon_hours |-> H, lookback |-> lookback]]
    /\ pc' = [pc EXCEPT ![r] = "gather"]
    /\ traces' = [traces EXCEPT ![r] = <<>>]
    /\ tasks' = [tasks EXCEPT ![r] = [forecast |-> Pending, anomaly |-> Pending]]
    /\ UNCHANGED <<agentVars, last_call, result, invoked>>

\* the task of run_forecast: it has no await, so it runs in one piece; the
\* model predict used is noted beside the payload
RunForecastStaleMutant(r) ==
    /\ pc[r] = "gather"
    /\ tasks[r].forecast = Pending
    /\ \E trained \in {Train(models, args[r].df)} :
       \E raws \in RawSeqs(args[r].horizon_hours), latency \in Latencies :
       \E res \in {Predict(IF models[args[r].zone_id] = NoModel THEN trained ELSE models,
                           args[r].df, args[r].zone_id, args[r].horizon_hours, raws)} :
          /\ models' = trained
          /\ IF res.status = "returned"
             THEN /\ traces' = [traces EXCEPT ![r] = Append(@,
                        StepTrace("forecast", "ok", latency,
                                  [count |-> Len(res.predictions)]))]
                  /\ tasks' = [tasks EXCEPT ![r].forecast =
                        [status |-> "returned", error |-> "none", model |-> res.model,
                         payload |-> [zone_id |-> res.zone_id,
                                      horizon_hours |-> res.horizon_hours,
                                      predictions |-> res.predictions]]]
             ELSE /\ tasks' = [tasks EXCEPT ![r].forecast = res]
                  /\ UNCHANGED traces
    /\ UNCHANGED <<chromadb, memory_store, collection, explained, last_call, pc, args,
                   result, invoked>>

RunForecastNoTraceMutant(r) ==
    /\ pc[r] = "gather"
    /\ tasks[r].forecast = Pending
    /\ \E trained \in {Train(models, args[r].df)} :
       \E raws \in RawSeqs(args[r].horizon_hours) :
       \E res \in {Predict(trained, args[r].df, args[r].zone_id,
                           args[r].horizon_hours, raws)} :
          /\ models' = trained
          /\ tasks' = [tasks EXCEPT ![r].forecast =
                IF res.status = "returned"
                THEN [status |-> "returned", error |-> "none", model |-> res.model,
                      payload |-> [zone_id |-> res.zone_id,
                                   horizon_hours |-> res.horizon_hours,
                                   predictions |-> res.predictions]]
                ELSE res]
    /\ UNCHANGED <<chromadb, memory_store, collection, explained, last_call, pc, args,
                   traces, result, invoked>>

RunForecast(r) ==
    /\ pc[r] = "gather"
    /\ tasks[r].forecast = Pending
    /\ \E trained \in {Train(models, args[r].df)} :
       \E raws \in RawSeqs(args[r].horizon_hours), latency \in Latencies :
       \E res \in {Predict(trained, args[r].df, args[r].zone_id,
                           args[r].horizon_hours, raws)} :
          /\ models' = trained
          /\ IF res.status = "returned"
             THEN /\ traces' = [traces EXCEPT ![r] = Append(@,
                        StepTrace("forecast", "ok", latency,
                                  [count |-> Len(res.predictions)]))]
                  /\ tasks' = [tasks EXCEPT ![r].forecast =
                        [status |-> "returned", error |-> "none", model |-> res.model,
                         payload |-> [zone_id |-> res.zone_id,
                                      horizon_hours |-> res.horizon_hours,
                                      predictions |-> res.predictions]]]
             ELSE /\ tasks' = [tasks EXCEPT ![r].forecast = res]
                  /\ UNCHANGED traces
    /\ UNCHANGED <<chromadb, memory_store, collection, explained, last_call, pc, args,
                   result, invoked>>

\* the task of run_anomaly: created second, so it runs after run_forecast's
RunAnomalySharedListMutant(r) ==
    /\ pc[r] = "gather"
    /\ tasks[r].forecast # Pending
    /\ tasks[r].anomaly = Pending
    /\ \E outliers \in OutlierChoices[args[r].df][args[r].zone_id][args[r].lookback],
          latency \in Latencies :
       \E res \in {Detect(args[r].df, args[r].zone_id, args[r].lookback, outliers)} :
          IF res.status = "returned"
          THEN /\ traces' = [traces EXCEPT ![1] = Append(@,
                     StepTrace("anomaly", "ok", latency,
                               [events |-> Len(res.events)]))]
               /\ tasks' = [tasks EXCEPT ![r].anomaly =
                     [status |-> "returned", error |-> "none",
                      payload |-> [zone_id |-> res.zone_id, events |-> res.events]]]
          ELSE /\ tasks' = [tasks EXCEPT ![r].anomaly = res]
               /\ UNCHANGED traces
    /\ UNCHANGED <<agentVars, last_call, pc, args, result, invoked>>

RunAnomalyOverwriteMutant(r) ==
    /\ pc[r] = "gather"
    /\ tasks[r].forecast # Pending
    /\ tasks[r].anomaly = Pending
    /\ \E outliers \in OutlierChoices[args[r].df][args[r].zone_id][args[r].lookback],
          latency \in Latencies :
       \E res \in {Detect(args[r].df, args[r].zone_id, args[r].lookback, outliers)} :
          IF res.status = "returned"
          THEN /\ traces' = [traces EXCEPT ![r] =
                     <<StepTrace("anomaly", "ok", latency, [events |-> Len(res.events)])>>]
               /\ tasks' = [tasks EXCEPT ![r].anomaly =
                     [status |-> "returned", error |-> "none",
                      payload |-> [zone_id |-> res.zone_id, events |-> res.events]]]
          ELSE /\ tasks' = [tasks EXCEPT ![r].anomaly = res]
               /\ UNCHANGED traces
    /\ UNCHANGED <<agentVars, last_call, pc, args, result, invoked>>

RunAnomaly(r) ==
    /\ pc[r] = "gather"
    /\ tasks[r].forecast # Pending
    /\ tasks[r].anomaly = Pending
    /\ \E outliers \in OutlierChoices[args[r].df][args[r].zone_id][args[r].lookback],
          latency \in Latencies :
       \E res \in {Detect(args[r].df, args[r].zone_id, args[r].lookback, outliers)} :
          IF res.status = "returned"
          THEN /\ traces' = [traces EXCEPT ![r] = Append(@,
                     StepTrace("anomaly", "ok", latency,
                               [events |-> Len(res.events)]))]
               /\ tasks' = [tasks EXCEPT ![r].anomaly =
                     [status |-> "returned", error |-> "none",
                      payload |-> [zone_id |-> res.zone_id, events |-> res.events]]]
          ELSE /\ tasks' = [tasks EXCEPT ![r].anomaly = res]
               /\ UNCHANGED traces
    /\ UNCHANGED <<agentVars, last_call, pc, args, result, invoked>>

PipelineOutput(r, all_traces, reasoning_payload, action_payload) ==
    [status |-> "returned", error |-> "none",
     output |-> [zone_id |-> args[r].zone_id,
                 traces |-> all_traces,
                 forecast |-> tasks[r].forecast.payload,
                 anomalies |-> tasks[r].anomaly.payload,
                 reasoning |-> reasoning_payload,
                 actions |-> action_payload]]

\* gather raises the first exception of its tasks
PropagatePartialMutant(r, err) ==
    /\ pc' = [pc EXCEPT ![r] = "done"]
    /\ result' = [result EXCEPT ![r] =
          [status |-> "returned", error |-> err,
           output |-> [zone_id |-> args[r].zone_id, traces |-> traces[r]]]]
    /\ UNCHANGED <<agentVars, last_call, args, traces, tasks, invoked>>

Propagate(r, err) ==
    /\ pc' = [pc EXCEPT ![r] = "raised"]
    /\ result' = [result EXCEPT ![r] = Raised(err)]
    /\ UNCHANGED <<agentVars, last_call, args, traces, tasks, invoked>>

\* events were detected: reason on the first, then plan
ReasonAndAct(r, event) ==
    \E env \in ReasonEnvs(chromadb, collection),
       reason_latency \in Latencies, action_latency \in Latencies :
    \E rr \in {Reason(chromadb, memory_store, collection, event, env)} :
       /\ memory_store' = rr.memory_store
       /\ collection' = rr.collection
       /\ explained' = Explained(explained, rr.ret)
       /\ IF rr.ret.status = "raised"
          THEN /\ pc' = [pc EXCEPT ![r] = "raised"]
               /\ result' = [result EXCEPT ![r] = Raised(rr.ret.error)]
               /\ invoked' = [invoked EXCEPT ![r] =
                     <<[call |-> "reason", event |-> event]>>]
               /\ UNCHANGED traces
          ELSE \E reasoning_payload \in {[event_id |-> rr.ret.event_id,
                                          prompt |-> rr.ret.prompt,
                                          explanation |-> rr.ret.explanation]} :
               \E action_payload \in {Plan(event, reasoning_payload.explanation)} :
               \E all_traces \in {traces[r] \o
                    <<StepTrace("reason", "ok", reason_latency,
                                [event_id |-> reasoning_payload.event_id]),
                      StepTrace("action", "ok", action_latency,
                                [actions |-> Len(action_payload.recommended_actions)])>>} :
                  /\ pc' = [pc EXCEPT ![r] = "done"]
                  /\ traces' = [traces EXCEPT ![r] = all_traces]
                  /\ result' = [result EXCEPT ![r] =
                        PipelineOutput(r, all_traces, reasoning_payload, action_payload)]
                  /\ invoked' = [invoked EXCEPT ![r] =
                        <<[call |-> "reason", event |-> event],
                          [call |-> "plan", event |-> event,
                           explanation |-> reasoning_payload.explanation]>>]
       /\ UNCHANGED <<models, chromadb, last_call, args, tasks>>

\* no event: both stages are recorded as skipped
SkipStagesTimedMutant(r) ==
    \E latency \in Latencies \ {0} :
       /\ pc' = [pc EXCEPT ![r] = "done"]
       /\ traces' = [traces EXCEPT ![r] = @ \o
             <<StepTrace("reason", "skipped", latency, [reason |-> "No anomaly events"]),
               StepTrace("action", "skipped", latency, [reason |-> "No anomaly events"])>>]
       /\ result' = [result EXCEPT ![r] = PipelineOutput(r, traces'[r], None, None)]
       /\ UNCHANGED <<agentVars, last_call, args, tasks, invoked>>

SkipStages(r) ==
    LET all_traces == traces[r] \o
           <<StepTrace("reason", "skipped", 0, [reason |-> "No anomaly events"]),
             StepTrace("action", "skipped", 0, [reason |-> "No anomaly events"])>>
    IN  /\ pc' = [pc EXCEPT ![r] = "done"]
        /\ traces' = [traces EXCEPT ![r] = all_traces]
        /\ result' = [result EXCEPT ![r] = PipelineOutput(r, traces'[r], None, None)]
        /\ UNCHANGED <<agentVars, last_call, args, tasks, invoked>>

\* run resumes once both tasks have finished and runs to its end
ResumeEarlyMutant(r) ==
    /\ pc[r] = "gather"
    /\ tasks[r].forecast # Pending
    /\ IF tasks[r].anomaly = Pending
       THEN /\ pc' = [pc EXCEPT ![r] = "done"]
            /\ traces' = [traces EXCEPT ![r] = @ \o
                  <<StepTrace("reason", "skipped", 0, [reason |-> "No anomaly events"]),
                    StepTrace("action", "skipped", 0, [reason |-> "No anomaly events"])>>]
            /\ result' = [result EXCEPT ![r] = Raised("NotAwaited")]
            /\ UNCHANGED <<agentVars, last_call, args, tasks, invoked>>
       ELSE IF tasks[r].forecast.status = "raised"
       THEN Propagate(r, tasks[r].forecast.error)
       ELSE IF tasks[r].anomaly.status = "raised"
       THEN Propagate(r, tasks[r].anomaly.error)
       ELSE IF tasks[r].anomaly.payload.events # <<>>
       THEN ReasonAndAct(r, tasks[r].anomaly.payload.events[1])
       ELSE SkipStages(r)

Resume(r) ==
    /\ pc[r] = "gather"
    /\ tasks[r].forecast # Pending
    /\ tasks[r].anomaly # Pending
    /\ IF tasks[r].forecast.status = "raised"
       THEN Propagate(r, tasks[r].forecast.error)
       ELSE IF tasks[r].anomaly.status = "raised"
       THEN Propagate(r, tasks[r].anomaly.error)
       ELSE IF tasks[r].anomaly.payload.events # <<>>
       THEN ReasonAndAct(r, tasks[r].anomaly.payload.events[1])
       ELSE SkipStages(r)

(***************************************************************************)
(* Specifications                                                          *)
(***************************************************************************)
NoModels == [z \in Zones |-> NoModel]

InitRuns ==
    /\ pc = [r \in RunIds |-> "idle"]
    /\ args = [r \in RunIds |-> None]
    /\ traces = [r \in RunIds |-> <<>>]
    /\ tasks = [r \in RunIds |-> [forecast |-> NotStarted, anomaly |-> NotStarted]]
    /\ result = [r \in RunIds |-> NotStarted]
    /\ invoked = [r \in RunIds |-> <<>>]

\* ForecastAgent(): calls on one forecasting agent, in any order
InitForecast ==
    /\ models = NoModels
    /\ chromadb = FALSE
    /\ memory_store = EmptyStore
    /\ collection = EmptyStore
    /\ explained = EmptyStore
    /\ last_call = [op |-> "none"]
    /\ InitRuns

NextForecast ==
    \/ \E h \in HistoryIds : TrainCall(h)
    \/ \E h \in HistoryIds, z \in Zones, H \in Horizons :
          \E raws \in RawSeqs(H) : PredictCall(h, z, H, raws)
    \/ \E h \in HistoryIds, z \in Zones, H \in Horizons :
          \E raws \in RawSeqs(H) : TrainThenPredict(h, z, H, raws)

SpecForecast == InitForecast /\ [][NextForecast]_vars

\* One predict call on a forecasting agent that has been trained, on any
\* history
TrainedModels == {Train(NoModels, "h1"), Train(Train(NoModels, "h1"), "h2")}

InitPredict ==
    /\ models \in TrainedModels
    /\ chromadb = FALSE
    /\ memory_store = EmptyStore
    /\ collection = EmptyStore
    /\ explained = EmptyStore
    /\ last_call = [op |-> "none"]
    /\ InitRuns

NextPredict ==
    /\ last_call.op = "none"
    /\ \E h \in HistoryIds, z \in Zones, H \in Horizons :
          \E raws \in RawSeqs(H) : PredictTraced(h, z, H, raws)

SpecPredict == InitPredict /\ [][NextPredict]_vars

\* AnomalyAgent(): detect calls, also with a lookback below the 20 rows needed
DetectLookbacks == {10, 20, 24, 120}

InitDetect == InitForecast

NextDetect ==
    \E h \in DbHistories, z \in Zones, lookback \in DetectLookbacks :
       \E outliers \in DetectOutlierChoices(h, z, lookback) :
          DetectCall(h, z, lookback, outliers)

SpecDetect == InitDetect /\ [][NextDetect]_vars

\* ActionAgent.plan on events with any part of the snapshot present
PlanValues == {0, 79, 80, 89, 90, 100}

PlanSnapshots == UNION {[K -> PlanValues] : K \in SUBSET {"demand", "drivers", "inventory"}}

PlanEvents ==
    {[event_id |-> "z1:T32", snapshot |-> snapshot] : snapshot \in PlanSnapshots}
    \cup {[event_id |-> "z1:T32"]}

InitPlan == InitForecast

NextPlan ==
    /\ last_call.op = "none"
    /\ \E event \in PlanEvents : PlanCall(event, "{}")

SpecPlan == InitPlan /\ [][NextPlan]_vars

\* estimate_impact on counts up to MaxCount
Counts == 0..MaxCount

InitImpact == InitForecast

NextImpact ==
    /\ last_call.op = "none"
    /\ \E anomalies_detected \in Counts, corrective_actions \in Counts,
       acknowledged_actions \in Counts, baseline_incidents \in Counts :
       ImpactCall(anomalies_detected, corrective_actions, acknowledged_actions,
                  baseline_incidents)

SpecImpact == InitImpact /\ [][NextImpact]_vars

\* ReplayHarness(): one run on a harness that is new or has replayed before
ReplayLookbacks == {24, 81, 120}

PriorReplayExplained ==
    {EmptyStore,
     Upsert(EmptyStore, "z1:T42",
            ExplanationDoc("z1:T42", FallbackExplanation(MakeEvent("h5", "z1", 40, 61004))))}

InitReplay ==
    /\ chromadb \in BOOLEAN
    /\ explained \in PriorReplayExplained
    /\ models \in {NoModels, Train(NoModels, "h5")}
    /\ explained # EmptyStore => models # NoModels
    /\ memory_store = IF chromadb THEN EmptyStore ELSE explained
    /\ collection = IF chromadb THEN explained ELSE EmptyStore
    /\ last_call = [op |-> "none"]
    /\ InitRuns

NextReplay ==
    /\ last_call.op = "none"
    /\ \E h \in HistoryIds, z \in Zones, H \in ReplayHorizons, lookback \in ReplayLookbacks :
          ReplayRun(h, z, H, lookback)

SpecReplay == InitReplay /\ [][NextReplay]_vars

\* ReasoningAgent(): with chromadb installed or not; calls in any order
ReasonEvents ==
    {[event_id |-> "z1:T32",
      snapshot |-> [demand |-> 90, drivers |-> 65, inventory |-> 75, weather |-> "rain"]],
     [event_id |-> "feedback:z1:T32:5"],
     [snapshot |-> [demand |-> 100, drivers |-> 0]]}

FeedbackEventIds == {"z1:T32", "unknown-event"}
Ratings == {5}
Corrections == {"driver strike"}

InitReason ==
    /\ models = NoModels
    /\ chromadb \in BOOLEAN
    /\ memory_store = EmptyStore
    /\ collection = EmptyStore
    /\ explained = EmptyStore
    /\ last_call = [op |-> "none"]
    /\ InitRuns

NextReason ==
    \/ \E event \in ReasonEvents :
          \E env \in ReasonEnvs(chromadb, collection) : ReasonCall(event, env)
    \/ \E event_id \in FeedbackEventIds, correction \in Corrections,
          rating \in Ratings, ufail \in BOOLEAN :
          /\ ufail => chromadb
          /\ FeedbackCall(event_id, correction, rating, ufail)

SpecReason == InitReason /\ [][NextReason]_vars

\* The application's orchestrator (routes._orchestrator): one pipeline run on
\* agents that earlier requests may have used.
PriorModels == {NoModels, Train(NoModels, "h1")}

PriorExplained ==
    {EmptyStore,
     Upsert(EmptyStore, "z1:T32",
            ExplanationDoc("z1:T32", "{\"root_cause\": \"driver shortage\"}"))}

SoloRuns == {1}

Init ==
    /\ models \in PriorModels
    /\ chromadb \in BOOLEAN
    /\ explained \in PriorExplained
    /\ \E m \in {IF explained = EmptyStore THEN EmptyStore
                 ELSE Upsert(explained, FeedbackId("z1:T32", 5),
                             FeedbackDoc("z1:T32", "driver strike", 5))} :
          /\ memory_store = IF chromadb THEN EmptyStore ELSE m
          /\ collection = IF chromadb THEN m ELSE EmptyStore
    /\ last_call = [op |-> "none"]
    /\ InitRuns

Next ==
    \E r \in SoloRuns :
       \/ StartRun(r)
       \/ RunForecast(r)
       \/ RunAnomaly(r)
       \/ Resume(r)

Spec == Init /\ [][Next]_vars

\* One pipeline run on agents whose forecaster was trained, by an earlier
\* request, on a history in which zone z2 alone was trainable
InitStale ==
    /\ models = Train(NoModels, "h2")
    /\ chromadb \in BOOLEAN
    /\ explained \in PriorExplained
    /\ memory_store = IF chromadb THEN EmptyStore ELSE explained
    /\ collection = IF chromadb THEN explained ELSE EmptyStore
    /\ last_call = [op |-> "none"]
    /\ InitRuns

SpecStale == InitStale /\ [][Next]_vars

\* Two pipeline runs and any number of /predict requests served by the same
\* event loop on the application's shared agents: between two awaits a
\* coroutine runs alone, so the steps of the requests interleave.  The
\* requests carry histories read at different times (h1, h3: the zone is
\* trainable; h2: it is not).  The surroundings are kept quiet: no measurable
\* latency, the regressor answers 0.33333, flagged rows score alike and the
\* explanation service is down.
SharedHistories == {"h1", "h2", "h3"}

SharedArgs ==
    [df : SharedHistories, zone_id : {"z1"}, horizon_hours : {1}, lookback : {24}]

Quiet(r) ==
    /\ \A k \in DOMAIN traces[r] : traces[r][k].latency_ms = 0
    /\ tasks[r].forecast.status = "returned" =>
          \A k \in DOMAIN tasks[r].forecast.payload.predictions :
             tasks[r].forecast.payload.predictions[k].predicted_availability = 3333
    /\ tasks[r].anomaly.status = "returned" =>
          \A k \in DOMAIN tasks[r].anomaly.payload.events :
             tasks[r].anomaly.payload.events[k].score = 6100
    /\ (pc[r] = "done" /\ invoked[r] # <<>>) =>
          result[r].output.reasoning.explanation = FallbackExplanation(invoked[r][1].event)

\* GET /predict: the handler's code after its await, train then predict
PredictRequest ==
    \E h \in SharedHistories :
       /\ TrainThenPredict(h, "z1", 1, <<33333>>)

InitShared ==
    /\ models = NoModels
    /\ chromadb = FALSE
    /\ memory_store = EmptyStore
    /\ collection = EmptyStore
    /\ explained = EmptyStore
    /\ last_call = [op |-> "none"]
    /\ InitRuns

NextShared ==
    \/ \E r \in RunIds : StartRun(r) /\ args'[r] \in SharedArgs
    \/ \E r \in RunIds : RunForecast(r) /\ Quiet(r)'
    \/ \E r \in RunIds : RunAnomaly(r) /\ Quiet(r)'
    \/ \E r \in RunIds : Resume(r) /\ Quiet(r)'
    \/ PredictRequest

SpecShared == InitShared /\ [][NextShared]_vars

(***************************************************************************)
(* Properties                                                              *)
(***************************************************************************)
\* both gathered stages of run r have returned (the branch is reached)
BothReturned(r) ==
    /\ tasks[r].forecast.status = "returned"
    /\ tasks[r].anomaly.status = "returned"

EventsOf(r) == tasks[r].anomaly.payload.events

TracesOf(trace_list, step) == SelectSeq(trace_list, LAMBDA t : t.step = step)

\* C1: when the anomaly stage of a run returned no event, the reasoner and the
\* planner are not invoked, the run ends with one 'reason' and one 'action'
\* trace, both 'skipped' with latency 0, its reasoning and actions are null,
\* and the run's last step leaves the reasoning memory as it was.
C1_SkipRule ==
    /\ [](\A r \in RunIds :
            (BothReturned(r) /\ EventsOf(r) = <<>>) =>
               /\ invoked[r] = <<>>
               /\ pc[r] \in {"gather", "done"}
               /\ pc[r] = "done" =>
                    /\ result[r].status = "returned"
                    /\ result[r].output.reasoning = None
                    /\ result[r].output.actions = None
                    /\ \A step \in {"reason", "action"} :
                          LET ts == TracesOf(result[r].output.traces, step)
                          IN  /\ Len(ts) = 1
                              /\ ts[1].status = "skipped"
                              /\ ts[1].latency_ms = 0)
    /\ [][\A r \in RunIds :
            (BothReturned(r) /\ EventsOf(r) = <<>> /\ pc[r] = "gather" /\ pc'[r] = "done")
               => (Memory' = Memory /\ explained' = explained)]_vars

C1_Witness ==
    /\ pc[1] = "done"
    /\ EventsOf(1) = <<>>
    /\ Len(result[1].output.traces) = 4
    /\ DOMAIN Memory # {}

LatestFeatureTs(h, z) == Timestamp(h, FeatureRows[h][z][Len(FeatureRows[h][z])])

\* C3: train(history) then predict(history, zone, H) for a zone with at least
\* 30 feature rows returns exactly H predictions, each within [0, 1], the k-th
\* stamped k hours after the zone's latest feature row.
C3_ForecastShape ==
    (last_call.op = "forecast"
        /\ Len(FeatureRows[last_call.history][last_call.zone]) >= MinFeatureRows) =>
       /\ last_call.ret.status = "returned"
       /\ Len(last_call.ret.predictions) = last_call.horizon
       /\ \A k \in 1..last_call.horizon :
             /\ last_call.ret.predictions[k].predicted_availability >= 0
             /\ last_call.ret.predictions[k].predicted_availability <= 10000
             /\ last_call.ret.predictions[k].timestamp
                   = IsoFormat(LatestFeatureTs(last_call.history, last_call.zone) + k)

C3_Witness ==
    /\ last_call.op = "forecast"
    /\ Len(FeatureRows[last_call.history][last_call.zone]) = MinFeatureRows
    /\ last_call.horizon >= 2
    /\ last_call.ret.status = "returned"
    /\ last_call.ret.predictions[1].predicted_availability = 0
    /\ last_call.ret.predictions[2].predicted_availability = 10000

\* C4: train(history) then predict(history, zone, H) for a zone with fewer
\* than 30 feature rows in that history always raises.
C4_ShortHistoryRaises ==
    (last_call.op = "forecast"
        /\ Len(FeatureRows[last_call.history][last_call.zone]) < MinFeatureRows) =>
       last_call.ret.status = "raised"

\* C5: a pipeline run raises nothing but InsufficientData or ModelNotReady, and
\* once both gathered stages have returned it ends by returning an output that
\* carries the forecast payload.
C5_OnlyDataErrors ==
    \A r \in RunIds :
       /\ pc[r] = "raised" => result[r].error \in {"InsufficientData", "ModelNotReady"}
       /\ (BothReturned(r) /\ pc[r] # "gather") =>
             /\ result[r].status = "returned"
             /\ result[r].output.forecast = tasks[r].forecast.payload

\* C6: every reason call returns, with a non-empty explanation.
C6_NonEmptyExplanation ==
    last_call.op = "reason" =>
       /\ last_call.ret.status = "returned"
       /\ last_call.ret.explanation # ""

\* C7: a reason call whose memory retrieval fails still returns an
\* explanation, its prompt built with the 'no prior context' framing.
C7_RetrievalFailureTolerated ==
    (last_call.op = "reason" /\ last_call.env.qfail) =>
       /\ last_call.ret.status = "returned"
       /\ last_call.ret.prompt = BuildPrompt(last_call.event, <<>>)

\* C8: a reason call that returns leaves, under the event's identifier, the
\* entry made of the explanation it returned (whatever was there before), adds
\* no other key and leaves every other entry as it was.
C8_ReasonWritesItsEntry ==
    [][(last_call'.op = "reason" /\ last_call'.ret.status = "returned") =>
          LET key == last_call'.ret.event_id IN
          /\ DOMAIN Memory' = DOMAIN Memory \cup {key}
          /\ Memory'[key] = ExplanationDoc(key, last_call'.ret.explanation)
          /\ \A k \in DOMAIN Memory \ {key} : Memory'[k] = Memory[k]]_vars

C8_Witness ==
    /\ last_call.op = "reason"
    /\ last_call.ret.status = "returned"
    /\ ~chromadb
    /\ last_call.ret.context # <<>>
    /\ last_call.ret.context[1] # Memory[last_call.ret.event_id]
    /\ Memory[last_call.ret.event_id]
          = ExplanationDoc(last_call.ret.event_id, last_call.ret.explanation)
    /\ Cardinality(DOMAIN Memory) >= 3

\* C9: an entry written by reason is never replaced by ingest_feedback: every
\* identifier reason has explained still holds the entry reason wrote last.
C9_FeedbackKeepsExplanations ==
    \A k \in DOMAIN explained : k \in DOMAIN Memory /\ Memory[k] = explained[k]

\* C10: a reason call that returns used at most 3 entries as context, all in
\* the memory before the call; without chromadb, an identifier that reason
\* explained before gets that entry as context and an identifier with no
\* stored entry gets the 'no prior context' framing.
C10_ContextFromEarlierCalls ==
    [][(last_call'.op = "reason" /\ last_call'.ret.status = "returned") =>
          LET key == last_call'.ret.event_id
              context == last_call'.ret.context
          IN  /\ Len(context) <= TopK
              /\ \A i \in DOMAIN context : \E k \in DOMAIN Memory : context[i] = Memory[k]
              /\ ~chromadb =>
                    /\ key \in DOMAIN explained => context = <<explained[key]>>
                    /\ key \notin DOMAIN Memory =>
                          /\ context = <<>>
                          /\ last_call'.ret.prompt = BuildPrompt(last_call'.event, <<>>)]_vars

\* C11: a predict call for a zone without a trained model raises ModelNotReady
\* and returns no predictions, a predict call returns only when the zone has a
\* model, and no predict call changes the model store.
C11_UntrainedZoneRaises ==
    /\ [](last_call.op = "predict" =>
            /\ models[last_call.zone] = NoModel =>
                  /\ last_call.ret.status = "raised"
                  /\ last_call.ret.error = "ModelNotReady"
                  /\ "predictions" \notin DOMAIN last_call.ret
            /\ last_call.ret.status = "returned" => models[last_call.zone] # NoModel)
    /\ [][last_call'.op = "predict" => models' = models]_vars

C11_Witness ==
    /\ last_call.op = "predict"
    /\ last_call.zone = "z2"
    /\ last_call.horizon = 2
    /\ models["z1"] # NoModel
    /\ models["z2"] = NoModel
    /\ Len(FeatureRows[last_call.history]["z2"]) >= MinFeatureRows
    /\ last_call.ret.error = "ModelNotReady"

\* the positions of the zone's `lookback` latest observations
LatestPositions(h, z, lookback) ==
    {i \in 1..History[h].rows[z] : i > History[h].rows[z] - lookback}

\* C12: a detect call raises InsufficientData when the zone's `lookback`
\* latest observations are fewer than 20; otherwise it returns, and every
\* event carries the zone, the timestamp and the values of one of those
\* observations and the identifier zone:timestamp.
C12_DetectWindow ==
    last_call.op = "detect" =>
       LET h == last_call.history
           z == last_call.zone
           latest == LatestPositions(h, z, last_call.lookback)
           ret == last_call.ret
       IN  IF Cardinality(latest) < MinAnomalyRows
           THEN ret.status = "raised" /\ ret.error = "InsufficientData"
           ELSE /\ ret.status = "returned"
                /\ ret.zone_id = z
                /\ \A k \in DOMAIN ret.events :
                      /\ ret.events[k].zone_id = z
                      /\ ret.events[k].event_id = z \o ":" \o ret.events[k].timestamp
                      /\ \E i \in latest :
                            /\ ret.events[k].timestamp = IsoFormat(Timestamp(h, i))
                            /\ ret.events[k].snapshot.availability
                                  = Observation(h, z, i).availability

C12_Witness ==
    /\ last_call.op = "detect"
    /\ last_call.history = "h1"
    /\ last_call.zone = "z1"
    /\ last_call.lookback = 20
    /\ last_call.ret.status = "returned"
    /\ Len(last_call.ret.events) = 2
    /\ \E k \in 1..2 : last_call.ret.events[k].event_id = "z1:T13"

\* C13 as stated: the events of a returned detect call are ordered by
\* non-increasing score, an observation of the window is an event exactly
\* when the outlier model flagged it, and the event's score equals the
\* observation's anomaly score.
C13_ScoreIsAnomalyScore ==
    (last_call.op = "detect" /\ last_call.ret.status = "returned") =>
       LET h == last_call.history
           events == last_call.ret.events
           flagged == DOMAIN last_call.outliers
       IN  /\ \A k \in 1..(Len(events) - 1) : events[k].score >= events[k + 1].score
           /\ Len(events) = Cardinality(flagged)
           /\ \A i \in LatestPositions(h, last_call.zone, last_call.lookback) :
                 (i \in flagged) <=>
                    (\E k \in DOMAIN events : events[k].timestamp = IsoFormat(Timestamp(h, i)))
           /\ \A i \in flagged : \A k \in DOMAIN events :
                 events[k].timestamp = IsoFormat(Timestamp(h, i)) =>
                    10 * events[k].score = last_call.outliers[i]

\* C13 amended: as above, the event's score being the observation's anomaly
\* score rounded to four decimal places.
C13_ScoreIsRoundedAnomalyScore ==
    (last_call.op = "detect" /\ last_call.ret.status = "returned") =>
       LET h == last_call.history
           events == last_call.ret.events
           flagged == DOMAIN last_call.outliers
       IN  /\ \A k \in 1..(Len(events) - 1) : events[k].score >= events[k + 1].score
           /\ Len(events) = Cardinality(flagged)
           /\ \A i \in LatestPositions(h, last_call.zone, last_call.lookback) :
                 (i \in flagged) <=>
                    (\E k \in DOMAIN events : events[k].timestamp = IsoFormat(Timestamp(h, i)))
           /\ \A i \in flagged : \A k \in DOMAIN events :
                 events[k].timestamp = IsoFormat(Timestamp(h, i)) =>
                    events[k].score = Round4(last_call.outliers[i])

C13_Witness ==
    /\ last_call.op = "detect"
    /\ last_call.ret.status = "returned"
    /\ Len(last_call.ret.events) = 2
    /\ last_call.ret.events[1].score = 6100
    /\ last_call.ret.events[2].score = 4501
    /\ last_call.ret.events[1].timestamp = IsoFormat(32)
    /\ last_call.outliers[32] = 61004

\* a stage of run r finishes in this step
ForecastStep(r) == tasks[r].forecast = Pending /\ tasks'[r].forecast # Pending
AnomalyStep(r) == tasks[r].anomaly = Pending /\ tasks'[r].anomaly # Pending

\* the entries added to a list that kept what it had
IsPrefix(s, t) == Len(s) <= Len(t) /\ SubSeq(t, 1, Len(s)) = s
Added(s, t) == SubSeq(t, Len(s) + 1, Len(t))

\* C14: the two stages are independently schedulable: while both are pending
\* either of them can be the next to run, so either can start and complete
\* before the other.
C14_EitherStageFirst ==
    \A r \in SoloRuns :
       (pc[r] = "gather" /\ tasks[r].forecast = Pending /\ tasks[r].anomaly = Pending) =>
          /\ ENABLED RunForecast(r)
          /\ ENABLED RunAnomaly(r)

\* C15: the trace list a completed run returns has exactly four entries, each
\* 'ok' or 'skipped': the forecast and anomaly entries, then the reason entry,
\* then the action entry; a stage's entry is appended at the moment the stage
\* completes, after the entries already there, so the first two are in
\* completion order.
C15_FourTraces ==
    /\ [](\A r \in RunIds : pc[r] = "done" =>
            LET t == result[r].output.traces IN
            /\ Len(t) = 4
            /\ {t[1].step, t[2].step} = {"forecast", "anomaly"}
            /\ t[3].step = "reason"
            /\ t[4].step = "action"
            /\ \A k \in 1..4 : t[k].status \in {"ok", "skipped"})
    /\ [][\A r \in RunIds :
            /\ (ForecastStep(r) /\ tasks'[r].forecast.status = "returned") =>
                  /\ IsPrefix(traces[r], traces'[r])
                  /\ Len(Added(traces[r], traces'[r])) = 1
                  /\ Added(traces[r], traces'[r])[1].step = "forecast"
            /\ (AnomalyStep(r) /\ tasks'[r].anomaly.status = "returned") =>
                  /\ IsPrefix(traces[r], traces'[r])
                  /\ Len(Added(traces[r], traces'[r])) = 1
                  /\ Added(traces[r], traces'[r])[1].step = "anomaly"
            /\ (pc[r] = "gather" /\ pc'[r] = "done") =>
                  /\ IsPrefix(traces[r], traces'[r])
                  /\ result'[r].output.traces = traces'[r]]_vars

C15_Witness ==
    /\ pc[1] = "done"
    /\ Len(result[1].output.traces) = 4
    /\ result[1].output.traces[1].latency_ms = 3
    /\ result[1].output.traces[2].details.events = 1
    /\ result[1].output.traces[3].status = "ok"
    /\ result[1].output.traces[4].details.actions = 3

\* C19: while the forecast or the anomaly stage of a run is still pending the
\* reasoner and the planner have not been invoked and the run has no 'reason'
\* or 'action' trace; the step that invokes them starts from a state in which
\* both stages have returned.
C19_BranchAfterBothStages ==
    /\ [](\A r \in RunIds :
            (tasks[r].forecast = Pending \/ tasks[r].anomaly = Pending) =>
               /\ invoked[r] = <<>>
               /\ TracesOf(traces[r], "reason") = <<>>
               /\ TracesOf(traces[r], "action") = <<>>
               /\ pc[r] = "gather")
    /\ [][\A r \in RunIds :
            (invoked'[r] # invoked[r] \/ Len(TracesOf(traces'[r], "reason")) > Len(TracesOf(traces[r], "reason")))
               => BothReturned(r)]_vars

C19_Witness ==
    /\ pc[1] = "done"
    /\ chromadb
    /\ Len(invoked[1]) = 2
    /\ Len(TracesOf(traces[1], "forecast")) = 1
    /\ Len(TracesOf(traces[1], "anomaly")) = 1
    /\ result[1].output.reasoning.explanation = ""

C17_ImpactFormulas ==
    last_call.op = "estimate_impact" =>
       LET a == last_call.anomalies_detected
           c == last_call.corrective_actions
           k == last_call.acknowledged_actions
           b == last_call.baseline_incidents
           ret == last_call.ret
       IN  /\ b >= 1 => IF a >= b THEN ret.incident_prevention_rate = 10000
                        ELSE ret.incident_prevention_rate * b = 10000 * a
           /\ IF c = 0 THEN ret.action_acceptance_rate = 0
              ELSE ret.action_acceptance_rate * c = 10000 * k
           /\ 100 * ret.estimated_mttr_reduction_minutes
                 = 120000 + 38 * ret.action_acceptance_rate
           /\ ret.estimated_ops_hours_saved = 35 * a + 22 * k

\* v is the multiple of the unit nearest to num / den
Nearest(v, num, den) ==
    /\ 2 * (v * den - num) <= den
    /\ 2 * (num - v * den) <= den

\* C17 amended: with r = min(1, acknowledged / corrective) (0 when corrective
\* is 0) and a baseline below 1 taken as 1, incident_prevention_rate is
\* min(1, detected / baseline) rounded to 4 decimals, action_acceptance_rate
\* is r rounded to 4 decimals, MTTR reduction is 12 + 38 x r rounded to 2
\* decimals, ops-hours saved is 0.35 x detected + 0.22 x acknowledged;
\* (5, 10, 6, 2) gives 1.0, 0.6, 34.8 and 3.07.
C17_ImpactFormulasRounded ==
    last_call.op = "estimate_impact" =>
       LET a == last_call.anomalies_detected
           c == last_call.corrective_actions
           k == last_call.acknowledged_actions
           b == Max(1, last_call.baseline_incidents)
           ret == last_call.ret
       IN  /\ IF a >= b THEN ret.incident_prevention_rate = 10000
              ELSE Nearest(ret.incident_prevention_rate, 10000 * a, b)
           /\ IF c = 0 THEN /\ ret.action_acceptance_rate = 0
                            /\ ret.estimated_mttr_reduction_minutes = 1200
              ELSE IF k >= c THEN /\ ret.action_acceptance_rate = 10000
                                  /\ ret.estimated_mttr_reduction_minutes = 5000
              ELSE /\ Nearest(ret.action_acceptance_rate, 10000 * k, c)
                   /\ Nearest(ret.estimated_mttr_reduction_minutes,
                              1200 * c + 3800 * k, c)
           /\ ret.estimated_ops_hours_saved = 35 * a + 22 * k
           /\ (a = 5 /\ c = 10 /\ k = 6 /\ last_call.baseline_incidents = 2) =>
                 ret = [incident_prevention_rate |-> 10000,
                        action_acceptance_rate |-> 6000,
                        estimated_mttr_reduction_minutes |-> 3480,
                        estimated_ops_hours_saved |-> 307]

C17_Witness ==
    /\ last_call.op = "estimate_impact"
    /\ last_call.anomalies_detected = 1
    /\ last_call.baseline_incidents = 3
    /\ last_call.corrective_actions = 3
    /\ last_call.acknowledged_actions = 4
    /\ last_call.ret.incident_prevention_rate = 3333
    /\ last_call.ret.action_acceptance_rate = 10000
    /\ last_call.ret.estimated_mttr_reduction_minutes = 5000

\* C18: plan returns at least two actions, the last two being the
\* medium-priority 'Enable surge controls' and 'Monitor zone stability'; the
\* actions before them are high-priority, 'Rebalance drivers' is among them
\* exactly when drivers < 0.9 x demand and 'Expedite inventory transfer'
\* exactly when inventory < 0.8 x demand, values missing from the snapshot
\* counting as 0.
C18_PlanActions ==
    last_call.op = "plan" =>
       LET snapshot == IF "snapshot" \in DOMAIN last_call.event
                       THEN last_call.event.snapshot ELSE [x \in {} |-> 0]
           Value(key) == IF key \in DOMAIN snapshot THEN snapshot[key] ELSE 0
           acts == last_call.ret.recommended_actions
           n == Len(acts)
           Named(name) == {j \in 1..n : acts[j].action = name}
       IN  /\ n >= 2
           /\ acts[n - 1].action = "Enable surge controls"
           /\ acts[n].action = "Monitor zone stability"
           /\ acts[n - 1].priority = "medium" /\ acts[n].priority = "medium"
           /\ \A j \in 1..(n - 2) :
                 /\ acts[j].priority = "high"
                 /\ acts[j].action \in {"Rebalance drivers", "Expedite inventory transfer"}
           /\ Cardinality(Named("Rebalance drivers"))
                 = IF 10 * Value("drivers") < 9 * Value("demand") THEN 1 ELSE 0
           /\ Cardinality(Named("Expedite inventory transfer"))
                 = IF 10 * Value("inventory") < 8 * Value("demand") THEN 1 ELSE 0

C18_Witness ==
    /\ last_call.op = "plan"
    /\ "snapshot" \in DOMAIN last_call.event
    /\ DOMAIN last_call.event.snapshot = {"demand", "drivers"}
    /\ last_call.event.snapshot.demand = 100
    /\ last_call.event.snapshot.drivers = 90
    /\ Len(last_call.ret.recommended_actions) = 3
    /\ last_call.ret.recommended_actions[1].action = "Expedite inventory transfer"

\* C16 as stated: a replay on a zone with fewer than max(40, lookback / 2)
\* observations raises InsufficientData without having invoked any agent, and
\* leaves the harness's model store and reasoning memory as they were.
C16_ReplayTooShortRaises ==
    [][last_call'.op = "replay" =>
          LET n == History[last_call'.history].rows[last_call'.zone] IN
          (n < 40 \/ 2 * n < last_call'.lookback) =>
             /\ last_call'.ret.status = "raised"
             /\ last_call'.ret.error = "InsufficientData"
             /\ last_call'.calls = <<>>
             /\ models' = models /\ Memory' = Memory /\ explained' = explained]_vars

\* C16 amended: the same with the threshold max(40, lookback / 2 rounded
\* down).
C16_ReplayTooShortRaisesFloor ==
    [][last_call'.op = "replay" =>
          LET n == History[last_call'.history].rows[last_call'.zone] IN
          (n < 40 \/ n < last_call'.lookback \div 2) =>
             /\ last_call'.ret.status = "raised"
             /\ last_call'.ret.error = "InsufficientData"
             /\ last_call'.calls = <<>>
             /\ models' = models /\ Memory' = Memory /\ explained' = explained]_vars

C16_Witness ==
    /\ last_call.op = "replay"
    /\ last_call.history = "h5"
    /\ last_call.zone = "z1"
    /\ last_call.lookback = 120
    /\ last_call.ret.error = "InsufficientData"
    /\ models # NoModels
    /\ DOMAIN Memory # {}

\* the step is a train call (alone or followed by predict) on history h
TrainStep(h) ==
    /\ last_call'.op \in {"train", "forecast"}
    /\ last_call'.history = h

\* C21: a model is stored for a zone only if it was fitted by a train call
\* on a history in which the zone has at least 30 feature rows; a train call
\* stores a model fitted on its history for exactly the zones with at least
\* 30 feature rows in it, returns without raising, leaves the models of the
\* other zones as they were, and no call removes a stored model.
C21_ModelsOnlyFromTraining ==
    /\ [](\A z \in Zones : models[z] # NoModel =>
            /\ models[z] \in HistoryIds
            /\ Len(FeatureRows[models[z]][z]) >= MinFeatureRows)
    /\ [][/\ \A h \in HistoryIds : TrainStep(h) =>
              /\ \A z \in Zones :
                    IF Len(FeatureRows[h][z]) >= MinFeatureRows
                    THEN models'[z] = h
                    ELSE models'[z] = models[z]
              /\ last_call'.op = "train" => last_call'.ret.status = "returned"
          /\ \A z \in Zones : models[z] # NoModel => models'[z] # NoModel
          /\ models' # models => last_call'.op \in {"train", "forecast"}]_vars

C21_Witness ==
    /\ last_call.op = "train"
    /\ last_call.history = "h2"
    /\ models["z1"] = "h1"
    /\ models["z2"] = "h2"

\* C22: in a predict call that returns, the lag feature after each step is
\* the regressor's output of that step clamped to [0, 1], the reported
\* prediction is that value rounded, the rolling feature after the step is
\* (2 x the rolling feature before it + the clamped output) / 3, and the lag
\* and rolling features handed to the regressor or left at the end all lie
\* within [0, 1].
C22_ClampedRecursion ==
    (last_call.op = "predict" /\ last_call.ret.status = "returned") =>
       LET rows == last_call.rows
           H == last_call.horizon
       IN  /\ Len(rows) = H + 1
           /\ \A k \in 1..H :
                 LET before == rows[k]
                     after == rows[k + 1]
                     clamped == Max(0, Min(Unit, last_call.raws[k]))
                 IN  /\ after.lag = clamped
                     /\ last_call.ret.predictions[k].predicted_availability
                           = Round4(after.lag)
                     /\ 3 * after.roll_num * before.roll_den
                           = (2 * before.roll_num + clamped * before.roll_den)
                                * after.roll_den
           /\ \A k \in 1..(H + 1) :
                 /\ rows[k].lag >= 0 /\ rows[k].lag <= Unit
                 /\ rows[k].roll_den > 0
                 /\ rows[k].roll_num >= 0
                 /\ rows[k].roll_num <= Unit * rows[k].roll_den

C22_Witness ==
    /\ last_call.op = "predict"
    /\ last_call.horizon = 2
    /\ last_call.history = "h4"
    /\ last_call.zone = "z2"
    /\ last_call.ret.status = "returned"
    /\ last_call.raws = <<120000, 0 - 25000>>
    /\ last_call.rows[1] = [lag |-> 90000, roll_num |-> 220000, roll_den |-> 3]
    /\ last_call.rows[3] = [lag |-> 0, roll_num |-> 1480000, roll_den |-> 27]

\* the number of actions plan recommends for an event
ActionCount(event) == Len(Plan(event, "").recommended_actions)

\* the integer nearest to 0.6 x count
NearestSixTenths(count) == CHOOSE v \in 0..count : Nearest(v, 6 * count, 10)

\* What C23 says of a replay that returned a report, but for the baseline: the
\* events are ranked by non-increasing score, the calls made are reason then
\* plan on each of the first min(5, number of events) events in that order,
\* plan receiving the explanation reason returned, generated_actions is the
\* sum of those events' action counts and the acknowledged count the sum of
\* round(0.6 x action count).
ReplayLoopShape ==
    LET events == last_call.events
        m == Min(5, Len(events))
        calls == last_call.calls
        counts == [k \in 1..m |-> ActionCount(events[k])]
    IN  /\ \A k \in 1..(Len(events) - 1) : events[k].score >= events[k + 1].score
        /\ Len(calls) = 2 * m
        /\ \A k \in 1..m :
              /\ calls[2 * k - 1] = [call |-> "reason", event |-> events[k]]
              /\ calls[2 * k].call = "plan"
              /\ calls[2 * k].event = events[k]
              /\ ExplanationDoc(events[k].event_id, calls[2 * k].explanation)
                    = Memory[events[k].event_id]
        /\ last_call.ret.anomaly_events = Len(events)
        /\ last_call.ret.generated_actions = Sum(counts)
        /\ last_call.impact_args.anomalies_detected = Len(events)
        /\ last_call.impact_args.corrective_actions = Sum(counts)
        /\ last_call.impact_args.acknowledged_actions
              = Sum([k \in 1..m |-> NearestSixTenths(counts[k])])
        /\ last_call.ret.business_impact
              = EstimateImpact(last_call.impact_args.anomalies_detected,
                               last_call.impact_args.corrective_actions,
                               last_call.impact_args.acknowledged_actions,
                               last_call.impact_args.baseline_incidents)

\* C23 as stated: a replay that returns a report has reasoned and planned as
\* described above, and the baseline-incident estimate handed to the impact
\* estimator is max(1, lookback / 24).
C23_ReplayTopFive ==
    (last_call.op = "replay" /\ last_call.ret.status = "returned") =>
       /\ ReplayLoopShape
       /\ 24 * last_call.impact_args.baseline_incidents = Max(24, last_call.lookback)

\* C23 amended: the same, the baseline-incident estimate being
\* max(1, lookback / 24 rounded down).
C23_ReplayTopFiveFloor ==
    (last_call.op = "replay" /\ last_call.ret.status = "returned") =>
       /\ ReplayLoopShape
       /\ last_call.impact_args.baseline_incidents
             = Max(1, last_call.lookback \div 24)

C23_Witness ==
    /\ last_call.op = "replay"
    /\ last_call.ret.status = "returned"
    /\ last_call.lookback = 81
    /\ Len(last_call.events) = 6
    /\ Len(last_call.calls) = 10
    /\ last_call.events[1].timestamp = IsoFormat(38)
    /\ last_call.events[4].timestamp = IsoFormat(37)
    /\ last_call.ret.generated_actions = 15
    /\ last_call.impact_args.acknowledged_actions = 9
    /\ last_call.impact_args.baseline_incidents = 3

\* the zone of a request is trainable in the request's history
Trainable(h, z) == Len(FeatureRows[h][z]) >= MinFeatureRows

\* C24: with pipeline runs and /predict requests interleaved on the shared
\* forecasting agent, a request whose zone is trainable in its own history
\* gets predictions from the model fitted on that history, whatever the other
\* requests trained before or in between.
C24_OwnModelUsed ==
    /\ \A r \in RunIds :
          (tasks[r].forecast.status \in {"returned", "raised"}
              /\ Trainable(args[r].df, args[r].zone_id)) =>
             /\ tasks[r].forecast.status = "returned"
             /\ tasks[r].forecast.model = args[r].df
    /\ (last_call.op = "forecast" /\ Trainable(last_call.history, last_call.zone)) =>
          /\ last_call.ret.status = "returned"
          /\ last_call.ret.model = last_call.history

C24_Witness ==
    /\ tasks[1].forecast.status = "returned"
    /\ tasks[2].forecast.status = "returned"
    /\ args[1].df = "h1"
    /\ args[2].df = "h3"
    /\ tasks[1].forecast.model = "h1"
    /\ tasks[2].forecast.model = "h3"
    /\ tasks[2].anomaly = Pending
    /\ models["z1"] = "h1"
    /\ last_call.op = "forecast"
    /\ last_call.history = "h3"

\* run r takes a step
RunStep(r) == pc'[r] # pc[r] \/ tasks'[r] # tasks[r]

\* C25: with two pipeline runs interleaved on one orchestrator, a run's trace
\* list is changed by that run's steps alone, which only append to it; the
\* list a run returns is its own, and its entries describe the run's own
\* stages: the forecast entry counts its own predictions, the anomaly entry
\* its own events, the reason entry names its own top event.
C25_TracesNotMixed ==
    /\ [](\A r \in RunIds : pc[r] = "done" =>
            LET t == result[r].output.traces IN
            /\ t = traces[r]
            /\ Len(t) = 4
            /\ \A k \in DOMAIN t :
                  /\ t[k].step = "forecast" =>
                        t[k].details.count = Len(tasks[r].forecast.payload.predictions)
                  /\ t[k].step = "anomaly" =>
                        t[k].details.events = Len(EventsOf(r))
                  /\ (t[k].step = "reason" /\ t[k].status = "ok") =>
                        /\ EventsOf(r) # <<>>
                        /\ t[k].details.event_id = EventsOf(r)[1].event_id
                  /\ t[k].status = "skipped" => EventsOf(r) = <<>>)
    /\ [][\A r \in RunIds :
            /\ traces'[r] # traces[r] =>
                  /\ RunStep(r)
                  /\ \A q \in RunIds \ {r} : ~RunStep(q)
                  /\ pc[r] = "idle" \/ IsPrefix(traces[r], traces'[r])
            /\ RunStep(r) => \A q \in RunIds \ {r} : traces'[q] = traces[q]]_vars

C25_Witness ==
    /\ pc[1] = "done" /\ pc[2] = "done"
    /\ args[1].df = "h1" /\ args[2].df = "h3"
    /\ EventsOf(1) = <<>>
    /\ Len(EventsOf(2)) = 2
    /\ result[1].output.traces[3].status = "skipped"
    /\ result[2].output.traces[3].status = "ok"
    /\ result[2].output.traces[2].details.events = 2
    /\ tasks[1].forecast.model = "h1"
    /\ models["z1"] = "h3"

\* a gathered stage of run r raised
StageRaised(r) ==
    tasks[r].forecast.status = "raised" \/ tasks[r].anomaly.status = "raised"

\* C26: when the forecast or the anomaly stage of a run has raised, the
\* reasoner and the planner are not invoked, the run can only end by raising:
\* the forecast stage's error if it raised, otherwise the anomaly stage's, one
\* of ModelNotReady and InsufficientData, with no output and no trace list
\* returned; and no step of such a run changes the reasoning memory.
C26_StageFailureRaises ==
    /\ [](\A r \in RunIds : StageRaised(r) =>
            /\ invoked[r] = <<>>
            /\ pc[r] \in {"gather", "raised"}
            /\ pc[r] = "raised" =>
                  /\ result[r].status = "raised"
                  /\ result[r].error = IF tasks[r].forecast.status = "raised"
                                        THEN tasks[r].forecast.error
                                        ELSE tasks[r].anomaly.error
                  /\ result[r].error \in {"ModelNotReady", "InsufficientData"}
                  /\ DOMAIN result[r] = {"status", "error"})
    /\ [][\A r \in RunIds :
            (RunStep(r) /\ (StageRaised(r) \/ StageRaised(r)' \/ pc'[r] = "gather")) =>
               /\ Memory' = Memory
               /\ explained' = explained]_vars

C26_Witness ==
    /\ pc[1] = "raised"
    /\ tasks[1].forecast.status = "returned"
    /\ tasks[1].forecast.model = "h2"
    /\ args[1].df = "h1"
    /\ tasks[1].anomaly.error = "InsufficientData"
    /\ result[1].error = "InsufficientData"
    /\ Len(traces[1]) = 1
    /\ DOMAIN Memory # {}

\* C27: without chromadb, the context of a reason call that returns is never
\* a feedback entry of the event's own identifier; it is empty when reason has
\* not explained the identifier before, and otherwise the single entry reason
\* wrote last under that identifier.
C27_FeedbackNeverContext ==
    [][(last_call'.op = "reason" /\ last_call'.ret.status = "returned" /\ ~chromadb) =>
          LET key == last_call'.ret.event_id
              context == last_call'.ret.context
          IN  /\ \A i \in DOMAIN context :
                    \A correction \in Corrections, rating \in Ratings :
                       context[i] # FeedbackDoc(key, correction, rating)
              /\ context = IF key \in DOMAIN explained
                           THEN <<explained[key]>> ELSE <<>>]_vars

\* C28: in a replay that reaches its metrics, the recorded series and the
\* predicted series handed to mape and rmse both have the length of the
\* requested horizon.
C28_SeriesSameLength ==
    (last_call.op = "replay" /\ "metric_args" \in DOMAIN last_call
        /\ last_call.metric_args # <<>> /\ last_call.horizon \in 1..48) =>
       /\ Len(last_call.metric_args[1]) = last_call.horizon
       /\ Len(last_call.metric_args[2]) = last_call.horizon

\* C29: a replay on a zone with at least max(40, lookback // 2) observations,
\* none of them with a missing value, and a lookback of at least 24 does not
\* fail with ModelNotReady or InsufficientData: the zone has at least 30
\* feature rows, so train has fitted its model on this history, and the
\* detection window has at least 20 rows.
C29_ThresholdImpliesBoth ==
    (/\ last_call.op = "replay"
     /\ History[last_call.history].rows[last_call.zone]
           >= ReplayThreshold(last_call.lookback)
     /\ History[last_call.history].missing[last_call.zone] = {}
     /\ last_call.lookback >= 24) =>
       /\ last_call.ret.error \notin {"ModelNotReady", "InsufficientData"}
       /\ Len(FeatureRows[last_call.history][last_call.zone]) >= MinFeatureRows
       /\ models[last_call.zone] = last_call.history
       /\ Len(Window(last_call.history, last_call.zone, last_call.lookback))
             >= MinAnomalyRows

C29_Witness ==
    /\ last_call.op = "replay"
    /\ last_call.history = "h5"
    /\ last_call.zone = "z1"
    /\ last_call.lookback = 24
    /\ History["h5"].rows["z1"] = ReplayThreshold(24)
    /\ Len(Window("h5", "z1", 24)) = 24
    /\ last_call.horizon = 2
    /\ last_call.ret.status = "returned"
    /\ last_call.ret.anomaly_events = 2

\* a reason call that returned the local explanation: the service call failed
FellBack(call) ==
    /\ call.op = "reason"
    /\ call.env.service.raises
    /\ call.ret.status = "returned"

\* the confidence of the local explanation for an event, in hundredths
ConfidenceOf(event) ==
    LET snapshot == Get(event, "snapshot", [x \in {} |-> 0])
    IN  FallbackConfidence(Get(snapshot, "demand", 0), Get(snapshot, "drivers", 1))

\* C30: a reason call whose service call fails returns the local explanation
\* computed from the event alone, whatever the memory holds and whatever was
\* called before, with a confidence between 0.45 and 0.9 when the demand is
\* not negative; when the call before it was such a call on the same event,
\* it returns the same explanation and leaves the entry stored under the
\* event's identifier as it was.
C30_FallbackDeterministic ==
    [][FellBack(last_call') =>
          LET event == last_call'.event
              key == last_call'.ret.event_id
          IN  /\ last_call'.ret.explanation = FallbackExplanation(event)
              /\ Get(Get(event, "snapshot", [x \in {} |-> 0]), "demand", 0) >= 0 =>
                    ConfidenceOf(event) \in 45..90
              /\ (FellBack(last_call) /\ last_call.event = event) =>
                    /\ last_call'.ret.explanation = last_call.ret.explanation
                    /\ key \in DOMAIN Memory
                    /\ Memory'[key] = Memory[key]]_vars

C30_Witness ==
    /\ FellBack(last_call)
    /\ EventIdOf(last_call.event) = "z1:T32"
    /\ ConfidenceOf(last_call.event) = 73
    /\ ~chromadb
    /\ last_call.ret.context
          = <<ExplanationDoc("z1:T32", FallbackExplanation(last_call.event))>>
    /\ Memory["z1:T32"] = last_call.ret.context[1]
    /\ Cardinality(DOMAIN Memory) >= 2

====
